---- MODULE Spec2Model ----
(***************************************************************************)
(* Model of scripts/apidoc.ts: the API documentation generator.  The file  *)
(* holds two variants of build(): the "data" variant (lines 42-252) writes *)
(* a markdown page plus a companion .ts data file per module and renders   *)
(* comment text through marked; the "inline" variant (lines 316-509)       *)
(* embeds the method list in the markdown page.                            *)
(*                                                                         *)
(* Text is a sequence of pieces.  Identifiers and JSON text hold one       *)
(* character per piece, so that length, substring and case conversion are  *)
(* the JavaScript ones; fixed template text is one piece per literal.      *)
(***************************************************************************)
EXTENDS Integers, Sequences, FiniteSets, TLC

VARIABLES
    variant,         \* which build() of the file runs: "data" or "inline"
    tree,            \* the classes typedoc finds under the root namespace
    pc,              \* position of build()
    runs,            \* number of times the script has been started
    projectOk,       \* app.convert() returned a project in this run
    rng,             \* state of the library's random generator
    mi,              \* index of the module of the outer for-loop
    mj,              \* index of the method of the inner for-loop
    modulesPages,    \* const modulesPages
    methods,         \* const methods of the current module
    parameters,      \* const parameters of the current method
    signatureParameters, \* const signatureParameters of the current method
    requiresArgs,    \* let requiresArgs of the current method
    example,         \* let example of the current method, <<>> before it is set
    examples,        \* let examples of the current method
    disk,            \* files of the output directory: set of [path, content]
    writes,          \* paths written by this run, in order
    seen,            \* <<module, method, text>> of every serialized result so far
    calls,           \* <<module, method>> of every method this run has invoked
    serialized,      \* JSON text of the current method's result, <<>> if none
    failedAt         \* statement that raised the error build() rejected with

vars == <<variant, tree, pc, runs, projectOk, rng, mi, mj, modulesPages,
          methods, parameters, signatureParameters, requiresArgs, example,
          examples, disk, writes, seen, calls, serialized, failedAt>>

----------------------------------------------------------------------------
(* Bounds *)

MaxModules == 2      \* classes in the reflection tree
MaxRuns == 2         \* times the script is run
MaxSeed == 2         \* seeds the library may start a process with

----------------------------------------------------------------------------
(* Characters and strings *)

LowerChars == <<"a","b","c","d","e","f","g","h","i","j","k","l","m",
                "n","o","p","q","r","s","t","u","v","w","x","y","z">>
UpperChars == <<"A","B","C","D","E","F","G","H","I","J","K","L","M",
                "N","O","P","Q","R","S","T","U","V","W","X","Y","Z">>
Digits == <<"0","1","2","3","4","5","6","7","8","9">>

IsIn(c, s) == \E i \in 1..Len(s) : s[i] = c
IndexIn(c, s) == CHOOSE i \in 1..Len(s) : s[i] = c

IsUpper(c) == IsIn(c, UpperChars)
IsLower(c) == IsIn(c, LowerChars)
toLowerCase(c) == IF IsUpper(c) THEN LowerChars[IndexIn(c, UpperChars)] ELSE c
toUpperCase(c) == IF IsLower(c) THEN UpperChars[IndexIn(c, LowerChars)] ELSE c

\* String.prototype.substring(from) and substring(from, to), 0-based, clamped
substringFrom(s, from) ==
    IF from >= Len(s) THEN <<>> ELSE SubSeq(s, from + 1, Len(s))
substring(s, from, to) ==
    LET t == IF to > Len(s) THEN Len(s) ELSE to IN
    IF from >= t THEN <<>> ELSE SubSeq(s, from + 1, t)

\* String.prototype.replace('_', ''): only the first occurrence goes
replaceUnderscore(s) ==
    IF IsIn("_", s)
    THEN LET i == CHOOSE k \in 1..Len(s) :
                     s[k] = "_" /\ \A h \in 1..(k - 1) : s[h] # "_"
         IN SubSeq(s, 1, i - 1) \o SubSeq(s, i + 1, Len(s))
    ELSE s

IsSpace(c) == c \in {" ", "\n"}

RECURSIVE trimStart(_)
trimStart(s) ==
    IF s # <<>> /\ IsSpace(Head(s)) THEN trimStart(Tail(s)) ELSE s

RECURSIVE trimEnd(_)
trimEnd(s) ==
    IF s # <<>> /\ IsSpace(s[Len(s)])
    THEN trimEnd(SubSeq(s, 1, Len(s) - 1)) ELSE s

trim(s) == trimEnd(trimStart(s))

\* Array.prototype.join over an array of strings
RECURSIVE join(_, _)
join(arr, sep) ==
    IF arr = <<>> THEN <<>>
    ELSE IF Len(arr) = 1 THEN arr[1]
    ELSE arr[1] \o sep \o join(Tail(arr), sep)

\* methodName.substring(0,1).toUpperCase() +
\* methodName.substring(1).replace(/([A-Z]+)/g, ' $1')
RECURSIVE spaceRuns(_, _)
spaceRuns(s, i) ==
    IF i > Len(s) THEN <<>>
    ELSE (IF IsUpper(s[i]) /\ (i = 1 \/ ~IsUpper(s[i - 1]))
          THEN <<" ", s[i]>> ELSE <<s[i]>>) \o spaceRuns(s, i + 1)

prettyMethodName(methodName) ==
    (IF methodName = <<>> THEN <<>> ELSE <<toUpperCase(methodName[1])>>)
    \o spaceRuns(substringFrom(methodName, 1), 1)

lowerFirst(moduleName) ==
    (IF moduleName = <<>> THEN <<>> ELSE <<toLowerCase(moduleName[1])>>)
    \o substringFrom(moduleName, 1)

----------------------------------------------------------------------------
(* String.prototype.localeCompare and Array.prototype.sort *)

\* Primary collation weight: letters compare without regard to case
primaryWeight(c) ==
    IF IsLower(c) THEN 10 + IndexIn(c, LowerChars)
    ELSE IF IsUpper(c) THEN 10 + IndexIn(c, UpperChars)
    ELSE IF IsIn(c, Digits) THEN IndexIn(c, Digits)
    ELSE 0

RECURSIVE primaryCompare(_, _)
primaryCompare(a, b) ==
    IF a = <<>> /\ b = <<>> THEN 0
    ELSE IF a = <<>> THEN -1
    ELSE IF b = <<>> THEN 1
    ELSE IF primaryWeight(Head(a)) < primaryWeight(Head(b)) THEN -1
    ELSE IF primaryWeight(Head(a)) > primaryWeight(Head(b)) THEN 1
    ELSE primaryCompare(Tail(a), Tail(b))

\* Case decides only between strings with equal primary weights:
\* lower case first
RECURSIVE caseCompare(_, _)
caseCompare(a, b) ==
    IF a = <<>> \/ b = <<>> THEN 0
    ELSE IF Head(a) = Head(b) THEN caseCompare(Tail(a), Tail(b))
    ELSE IF IsLower(Head(a)) /\ IsUpper(Head(b)) THEN -1
    ELSE IF IsUpper(Head(a)) /\ IsLower(Head(b)) THEN 1
    ELSE caseCompare(Tail(a), Tail(b))

localeCompare(a, b) ==
    IF primaryCompare(a, b) # 0 THEN primaryCompare(a, b) ELSE caseCompare(a, b)

\* modulesPages.sort((a, b) => a.text.localeCompare(b.text)): a stable sort
RECURSIVE insertPage(_, _)
insertPage(sorted, x) ==
    IF sorted = <<>> THEN <<x>>
    ELSE IF localeCompare(sorted[Len(sorted)].text, x.text) <= 0
         THEN Append(sorted, x)
         ELSE Append(insertPage(SubSeq(sorted, 1, Len(sorted) - 1), x),
                     sorted[Len(sorted)])

\* the list left in the order of collection
sortPagesOmitted(pages) == pages

RECURSIVE sortPages(_)
sortPages(pages) ==
    IF pages = <<>> THEN <<>>
    ELSE insertPage(sortPages(SubSeq(pages, 1, Len(pages) - 1)),
                    pages[Len(pages)])

----------------------------------------------------------------------------
(* The documented library: faker.seed and the generator methods *)

\* faker.seed(n)
seed(n) == [seed |-> n, draws |-> 0]

\* the number the generator yields next
nextRandom(g) == (g.seed + g.draws) % 4

\* the value a method returns when called without arguments, or a throw
callMethod(impl, g) ==
    LET d == nextRandom(g) IN
    CASE impl.kind = "throws" -> [threw |-> TRUE, kind |-> "none", chars |-> <<>>]
      [] impl.kind = "string" ->
           [threw |-> FALSE, kind |-> "string",
            chars |-> [i \in 1..(impl.base + d) |-> Digits[((i + d) % 10) + 1]]]
      [] impl.kind = "number" ->
           [threw |-> FALSE, kind |-> "number",
            chars |-> [i \in 1..impl.base |-> Digits[((i + d) % 10) + 1]]]
      [] OTHER -> [threw |-> FALSE, kind |-> impl.kind, chars |-> <<>>]

\* the generator after the call
advance(impl, g) == [g EXCEPT !.draws = (@ + impl.draws) % 8]

\* JSON.stringify: undefined has no serialization, a BigInt raises
JSONstringify(value) ==
    CASE value.kind = "string" ->
           [threw |-> FALSE, defined |-> TRUE,
            text |-> <<"\"">> \o value.chars \o <<"\"">>]
      [] value.kind = "number" ->
           [threw |-> FALSE, defined |-> TRUE, text |-> value.chars]
      [] value.kind = "bigint" ->
           [threw |-> TRUE, defined |-> FALSE, text |-> <<>>]
      [] OTHER -> [threw |-> FALSE, defined |-> FALSE, text |-> <<>>]

----------------------------------------------------------------------------
(* The reflection tree typedoc produces *)

NoComment == [has |-> FALSE, shortText |-> <<>>, text |-> <<>>, tags |-> <<>>]
Comment(short, long, tags) ==
    [has |-> TRUE, shortText |-> short, text |-> long, tags |-> tags]
NoDefault == [def |-> FALSE, val |-> <<>>]
Default(v) == [def |-> TRUE, val |-> v]
Param(n, t, d, c) == [name |-> n, type |-> t, defaultValue |-> d, comment |-> c]
Impl(k, b, n) == [kind |-> k, base |-> b, draws |-> n]

DeclAnimal ==
    [name |-> <<"A","n","i","m","a","l">>,
     comment |-> Comment(<<" ", "Module to generate animals.", " ">>, <<>>, <<>>),
     methods |-> <<
       [name |-> <<"d","o","g">>, typeParameters |-> <<>>, parameters |-> <<>>,
        type |-> <<"string">>,
        comment |-> Comment(<<"Returns a dog breed.">>, <<>>,
                            <<[tagName |-> "example",
                               text |-> <<"faker.animal.dog('x')", "\n">>],
                              [tagName |-> "see", text |-> <<"cat">>]>>),
        impl |-> Impl("string", 3, 1)],
       [name |-> <<"t","y","p","e">>, typeParameters |-> <<>>,
        parameters |-> <<Param(<<"k","i","n","d">>, <<"string">>,
                               Default(<<"'x'">>), NoComment),
                         Param(<<"n">>, <<"number">>, NoDefault, NoComment)>>,
        type |-> <<"string">>, comment |-> NoComment,
        impl |-> Impl("throws", 0, 0)] >>]

DeclDate ==
    [name |-> <<"_","D","a","t","e">>,
     comment |-> NoComment,
     methods |-> <<
       [name |-> <<"p","a","s","t">>, typeParameters |-> <<>>,
        parameters |-> <<Param(<<"y","e","a","r","s">>, <<"number">>,
                               NoDefault, Comment(<<"The range of years.">>,
                                                  <<"Must be positive.">>, <<>>)),
                         Param(<<"r","e","f">>, <<"string">>,
                               Default(<<"'now'">>), NoComment)>>,
        type |-> <<"Date">>, comment |-> Comment(<<"A date in the past.">>, <<>>, <<>>),
        impl |-> Impl("string", 60, 2)],
       [name |-> <<"r","e","s","e","t">>, typeParameters |-> <<>>,
        parameters |-> <<>>, type |-> <<"void">>, comment |-> NoComment,
        impl |-> Impl("undefined", 0, 0)] >>]

DeclGit ==
    [name |-> <<"G","i","t">>,
     comment |-> Comment(<<"Module to generate git data.">>, <<"See git.">>, <<>>),
     methods |-> <<
       [name |-> <<"c","o","m","m","i","t","E","n","t","r","y">>,
        typeParameters |-> <<>>,
        parameters |-> <<Param(<<"o","p","t","s">>, <<"object">>,
                               Default(<<"{}">>), NoComment)>>,
        type |-> <<"string">>, comment |-> NoComment,
        impl |-> Impl("string", 49, 3)],
       [name |-> <<"b","r","a","n","c","h">>, typeParameters |-> <<>>,
        parameters |-> <<>>, type |-> <<"string">>, comment |-> NoComment,
        impl |-> Impl("string", 48, 1)],
       [name |-> <<"s","h","o","r","t","S","H","A">>,
        typeParameters |-> <<[name |-> <<"T">>, comment |-> NoComment]>>,
        parameters |-> <<>>, type |-> <<"T">>, comment |-> NoComment,
        impl |-> Impl("bigint", 0, 1)] >>]

DeclWord ==
    [name |-> <<"W","o","r","d">>,
     comment |-> Comment(<<>>, <<>>, <<>>),
     methods |-> <<
       [name |-> <<"n","o","u","n">>, typeParameters |-> <<>>,
        parameters |-> <<Param(<<"l","e","n">>, <<"number">>,
                               Default(<<"5">>), NoComment),
                         Param(<<"s","t","r","a","t","e","g","y">>, <<"string">>,
                               Default(<<"'any'">>), NoComment)>>,
        type |-> <<"number">>, comment |-> NoComment,
        impl |-> Impl("number", 2, 1)] >>]

Classes == {DeclAnimal, DeclDate, DeclGit, DeclWord}

\* project.getChildrenByKind(Namespace)[0].getChildrenByKind(Class):
\* any list of distinct classes
Trees ==
    UNION {{t \in [1..n -> Classes] : \A i, j \in 1..n : t[i] = t[j] => i = j}
           : n \in 0..MaxModules}

----------------------------------------------------------------------------
(* Constants of the script *)

scriptCommand == <<"pnpm run generate:api-docs">>
pathOutputJson == <<"docs/api/typedoc.json">>
pathDocsApiPages == <<"docs/.vitepress/api-pages.mjs">>
pathMd(lowerModuleName) == <<"docs/api/">> \o lowerModuleName \o <<".md">>
pathTs(lowerModuleName) == <<"docs/api/">> \o lowerModuleName \o <<".ts">>

ExampleMaxLength == 50
ExampleKeptLength == 47

FixedPages ==
    << [text |-> <<"F","a","k","e">>, link |-> <<"/api/fake.html">>],
       [text |-> <<"L","o","c","a","l","i","z","a","t","i","o","n">>,
        link |-> <<"/api/localization.html">>] >>

----------------------------------------------------------------------------
(* Text rendering *)

toBlock(comment) ==
    LET short == IF comment.has THEN trim(comment.shortText) ELSE <<>>
        long == IF comment.has THEN comment.text ELSE <<>>
    IN (IF short # <<>> THEN short ELSE <<"Missing">>)
       \o (IF long # <<>> THEN <<"\n\n">> \o long ELSE <<>>)

escapePiece(c) ==
    CASE c = "\"" -> "&quot;"
      [] c = "<" -> "&lt;"
      [] c = ">" -> "&gt;"
      [] OTHER -> c

\* marked.parse: a fenced block becomes a code element, other text a
\* paragraph; the text itself is kept, with HTML characters escaped
markedParse(md) ==
    LET esc(t) == [i \in 1..Len(t) |-> escapePiece(t[i])] IN
    IF Len(md) >= 2 /\ md[1] = "<fence>ts\n" /\ md[Len(md)] = "\n<fence>"
    THEN <<"<pre><code class=\"hljs language-ts\">">>
         \o esc(SubSeq(md, 2, Len(md) - 1)) \o <<"</code></pre>">>
    ELSE <<"<p>">> \o esc(md) \o <<"</p>">>

\* description text of a record, per variant
renderDescription(v, comment) ==
    IF v = "data" THEN markedParse(toBlock(comment)) ELSE toBlock(comment)

\* examples text of a record, per variant
renderExamples(v, ex) ==
    IF v = "data" THEN markedParse(<<"<fence>ts\n">> \o ex \o <<"\n<fence>">>) ELSE ex

----------------------------------------------------------------------------
(* Signature extraction: the loops of lines 99-142 *)

Undefined == [def |-> FALSE, val |-> <<>>]

typeParameterRecords(v, signature) ==
    [i \in 1..Len(signature.typeParameters) |->
        [name |-> signature.typeParameters[i].name,
         type |-> Undefined, default |-> Undefined,
         description |-> renderDescription(v, signature.typeParameters[i].comment)]]

signatureTypeParameters(signature) ==
    [i \in 1..Len(signature.typeParameters) |-> signature.typeParameters[i].name]

parameterRequired(parameter) == ~parameter.defaultValue.def

parameterName(parameter) ==
    parameter.name \o (IF parameterRequired(parameter) THEN <<"?">> ELSE <<>>)

parameterDefaultSignatureText(parameter) ==
    IF ~parameterRequired(parameter)
    THEN <<" = ">> \o parameter.defaultValue.val ELSE <<>>

signatureParameterText(parameter) ==
    parameterName(parameter) \o <<": ">> \o parameter.type
    \o parameterDefaultSignatureText(parameter)

parameterRecord(v, parameter) ==
    [name |-> parameter.name,
     type |-> [def |-> TRUE, val |-> parameter.type],
     default |-> parameter.defaultValue,
     description |-> renderDescription(v, parameter.comment)]

\* requiresArgs set by every parameter instead of the first
requiresArgsAnyParameter(signature) ==
    \E i \in 1..Len(signature.parameters) :
       parameterRequired(signature.parameters[i])

\* let requiresArgs = false; if (index == 0) requiresArgs = parameterRequired
requiresArgsOf(signature) ==
    IF Len(signature.parameters) = 0 THEN FALSE
    ELSE parameterRequired(signature.parameters[1])

signatureTypeParametersString(signature) ==
    IF Len(signature.typeParameters) # 0
    THEN <<"<">> \o join(signatureTypeParameters(signature), <<", ">>) \o <<">">>
    ELSE <<>>

\* the first line of examples
signatureSummary(lowerModuleName, signature, sigParams) ==
    <<"faker.">> \o lowerModuleName \o <<".">> \o signature.name
    \o signatureTypeParametersString(signature)
    \o <<"(">> \o join(sigParams, <<", ">>) \o <<"): ">> \o signature.type
    \o <<"\n">>

\* the generated call, without its result
callText(lowerModuleName, methodName) ==
    <<"faker.">> \o lowerModuleName \o <<".">> \o methodName \o <<"()">>

exampleTags(signature) ==
    IF signature.comment.has
    THEN LET ex == SelectSeq(signature.comment.tags,
                             LAMBDA tag : tag.tagName = "example")
         IN [i \in 1..Len(ex) |-> trimEnd(ex[i].text)]
    ELSE <<>>

----------------------------------------------------------------------------
(* Generated files: a file is a sequence of lines [indent, t, v], t the    *)
(* fixed text of the line and v the text or data substituted into it       *)

Line(n, t, v) == [indent |-> n, t |-> t, v |-> v]

\* JSON.stringify of a parameter record: undefined members are left out
jsonParameter(r) ==
    <<[k |-> "name", v |-> r.name]>>
    \o (IF r.type.def THEN <<[k |-> "type", v |-> r.type.val]>> ELSE <<>>)
    \o (IF r.default.def THEN <<[k |-> "default", v |-> r.default.val]>> ELSE <<>>)
    \o <<[k |-> "description", v |-> r.description]>>

jsonMethods(ms) ==
    [i \in 1..Len(ms) |->
        [name |-> ms[i].name, description |-> ms[i].description,
         parameters |-> [j \in 1..Len(ms[i].parameters) |->
                            jsonParameter(ms[i].parameters[j])],
         returns |-> ms[i].returns, examples |-> ms[i].examples]]

\* .replace(/\n +/g, '\n'): the indentation of every line goes
stripIndentAll(content) ==
    [i \in 1..Len(content) |-> [content[i] EXCEPT !.indent = 0]]

\* .replace(/\n +/, '\n'): only the first indented line loses its indentation
stripIndentFirst(content) ==
    IF \E i \in 1..Len(content) : content[i].indent > 0
    THEN LET f == CHOOSE i \in 1..Len(content) :
                     /\ content[i].indent > 0
                     /\ \A h \in 1..(i - 1) : content[h].indent = 0
         IN [content EXCEPT ![f].indent = 0]
    ELSE content

\* prettier: blank lines at either end go; statements of a script start
\* at column 0, markdown keeps its indentation; comments are kept
RECURSIVE dropBlankStart(_)
dropBlankStart(content) ==
    IF content # <<>> /\ Head(content).t = ""
    THEN dropBlankStart(Tail(content)) ELSE content

RECURSIVE dropBlankEnd(_)
dropBlankEnd(content) ==
    IF content # <<>> /\ content[Len(content)].t = ""
    THEN dropBlankEnd(SubSeq(content, 1, Len(content) - 1)) ELSE content

format(content, parser) ==
    LET body == dropBlankEnd(dropBlankStart(content)) IN
    IF parser = "markdown" THEN body ELSE stripIndentAll(body)

mdTemplate(v, moduleName, lowerModuleName, ms, comment) ==
    << Line(0, "", <<>>),
       Line(6, "<script setup>", <<>>),
       Line(6, "import ApiDocsMethod from '../.vitepress/components/api-docs/method.vue'", <<>>) >>
    \o (IF v = "data"
        THEN << Line(6, "import { $ } from './$'", lowerModuleName) >>
        ELSE <<>>)
    \o << Line(6, "import { ref } from 'vue';", <<>>),
          IF v = "data"
          THEN Line(6, "const methods = ref($);", lowerModuleName)
          ELSE Line(6, "const methods = ref($json);", jsonMethods(ms)),
          Line(6, "</script>", <<>>),
          Line(6, "# $", moduleName),
          Line(6, "<!-- This file is automatically generated. -->", <<>>),
          Line(6, "<!-- Run '$' to update -->", scriptCommand),
          Line(6, "::: v-pre", <<>>),
          Line(6, "$", toBlock(comment)),
          Line(6, ":::", <<>>),
          Line(6, "<ApiDocsMethod v-for=\"method of methods\" v-bind:key=\"method.name\" :method=\"method\" />", <<>>),
          Line(6, "", <<>>) >>

tsTemplate(lowerModuleName, ms) ==
    << Line(0, "", <<>>),
       Line(4, "import type { Method } from '../.vitepress/components/api-docs/method';", <<>>),
       Line(4, "export const $: Method[] = $json", jsonMethods(ms)) >>

apiPagesTemplate(pages) ==
    << Line(0, "", <<>>),
       Line(4, "// This file is automatically generated.", <<>>),
       Line(4, "// Run '$' to update", scriptCommand),
       Line(4, "export const apiPages = $json;", pages),
       Line(4, "", <<>>) >>

\* writeFileSync(path, content): creates the file or replaces its content
writeFileSync(files, path, content) ==
    IF \E i \in 1..Len(files) : files[i].path = path
    THEN [i \in 1..Len(files) |->
             IF files[i].path = path
             THEN [path |-> path, content |-> content] ELSE files[i]]
    ELSE Append(files, [path |-> path, content |-> content])

----------------------------------------------------------------------------
(* State of build() *)

curModule == tree[mi]
moduleName == replaceUnderscore(curModule.name)
lowerModuleName == lowerFirst(moduleName)
curMethod == curModule.methods[mj]
\* const signature = method.signatures[0], carried with the method's name
signature == curMethod

StartSeeds == {seed(n) : n \in 0..MaxSeed}

Init ==
    /\ variant \in {"data", "inline"}
    /\ tree \in Trees
    /\ pc = "start"
    /\ runs = 1
    /\ projectOk = FALSE
    /\ rng \in StartSeeds
    /\ mi = 1
    /\ mj = 1
    /\ modulesPages = <<>>
    /\ methods = <<>>
    /\ parameters = <<>>
    /\ signatureParameters = <<>>
    /\ requiresArgs = FALSE
    /\ example = <<>>
    /\ examples = <<>>
    /\ disk = <<>>
    /\ writes = <<>>
    /\ seen = {}
    /\ calls = {}
    /\ serialized = <<>>
    /\ failedAt = "none"

\* Convert without the early return
ConvertWithoutReturn ==
    /\ pc = "start"
    /\ \E ok \in BOOLEAN :
          /\ projectOk' = ok
          /\ pc' = "dump"
    /\ UNCHANGED <<variant, tree, runs, rng, mi, mj, modulesPages, methods,
                   parameters, signatureParameters, requiresArgs, example,
                   examples, disk, writes, seen, calls, serialized, failedAt>>

\* lines 55-60: const project = app.convert(); if (!project) return;
Convert ==
    /\ pc = "start"
    /\ \E ok \in BOOLEAN :
          /\ projectOk' = ok
          /\ pc' = IF ok THEN "dump" ELSE "done"
    /\ UNCHANGED <<variant, tree, runs, rng, mi, mj, modulesPages, methods,
                   parameters, signatureParameters, requiresArgs, example,
                   examples, disk, writes, seen, calls, serialized, failedAt>>

\* lines 62-70: the diagnostic dump, the class list, the two fixed pages
GenerateJson ==
    /\ pc = "dump"
    /\ \E ok \in BOOLEAN :
          IF ok
          THEN /\ disk' = writeFileSync(disk, pathOutputJson,
                                        <<Line(0, "$json", <<"project">>)>>)
               /\ writes' = Append(writes, pathOutputJson)
               /\ modulesPages' = FixedPages
               /\ mi' = 1
               /\ pc' = "module"
               /\ UNCHANGED failedAt
          ELSE /\ pc' = "failed"
               /\ failedAt' = "generateJson"
               /\ UNCHANGED <<disk, writes, modulesPages, mi>>
    /\ UNCHANGED <<variant, tree, runs, projectOk, rng, mj, methods,
                   parameters, signatureParameters, requiresArgs, example,
                   examples, seen, calls, serialized>>

\* lines 73-84: head of the module loop
BeginModule ==
    /\ pc = "module"
    /\ mi <= Len(tree)
    /\ modulesPages' = Append(modulesPages,
          [text |-> moduleName,
           link |-> <<"/api/">> \o lowerModuleName \o <<".html">>])
    /\ methods' = <<>>
    /\ mj' = 1
    /\ pc' = "method"
    /\ UNCHANGED <<variant, tree, runs, projectOk, rng, mi, parameters,
                   signatureParameters, requiresArgs, example, examples,
                   disk, writes, seen, calls, serialized, failedAt>>

\* lines 87-154: head of the method loop, both parameter loops and the
\* first line of examples
ExtractSignature ==
    /\ pc = "method"
    /\ mj <= Len(curModule.methods)
    /\ LET sigParams == [i \in 1..Len(signature.parameters) |->
                            signatureParameterText(signature.parameters[i])]
       IN /\ signatureParameters' = sigParams
          /\ parameters' =
                typeParameterRecords(variant, signature)
                \o [i \in 1..Len(signature.parameters) |->
                       parameterRecord(variant, signature.parameters[i])]
          /\ requiresArgs' = requiresArgsOf(signature)
          /\ examples' = signatureSummary(lowerModuleName, signature, sigParams)
    /\ example' = <<>>
    /\ serialized' = <<>>
    /\ pc' = "seed"
    /\ UNCHANGED <<variant, tree, runs, projectOk, rng, mi, mj, modulesPages,
                   methods, disk, writes, seen, calls, failedAt>>

\* Seed without the call of faker.seed
SeedOmitted ==
    /\ pc = "seed"
    /\ pc' = IF ~requiresArgs THEN "invoke" ELSE "tags"
    /\ UNCHANGED <<variant, tree, runs, projectOk, rng, mi, mj, modulesPages,
                   methods, parameters, signatureParameters, requiresArgs,
                   example, examples, disk, writes, seen, calls, serialized,
                   failedAt>>

\* lines 155-156: faker.seed(0); if (!requiresArgs)
Seed ==
    /\ pc = "seed"
    /\ rng' = seed(0)
    /\ pc' = IF ~requiresArgs THEN "invoke" ELSE "tags"
    /\ UNCHANGED <<variant, tree, runs, projectOk, mi, mj, modulesPages,
                   methods, parameters, signatureParameters, requiresArgs,
                   example, examples, disk, writes, seen, calls, serialized, failedAt>>

\* truncate with the comparison off by one
truncateFromFifty(text) ==
    IF Len(text) >= ExampleMaxLength
    THEN substring(text, 0, ExampleKeptLength) \o <<".", ".", ".">>
    ELSE text

\* lines 159-161
truncate(text) ==
    IF Len(text) > ExampleMaxLength
    THEN substring(text, 0, ExampleKeptLength) \o <<".", ".", ".">>
    ELSE text

\* tryExample with a guarded length check: an undefined serialization
\* passes through
tryExampleGuardedLength(impl, g) ==
    LET r == callMethod(impl, g)
        j == JSONstringify(r)
    IN IF r.threw \/ j.threw
       THEN [caught |-> TRUE, serialized |-> <<>>, example |-> <<>>]
       ELSE [caught |-> FALSE, serialized |-> j.text, example |-> truncate(j.text)]

\* lines 157-167: what the try block leaves behind.  The call may throw,
\* JSON.stringify may throw, and example.length throws on undefined.
tryExample(impl, g) ==
    LET r == callMethod(impl, g)
        j == JSONstringify(r)
    IN IF r.threw \/ j.threw \/ ~j.defined
       THEN [caught |-> TRUE, serialized |-> <<>>, example |-> <<>>]
       ELSE [caught |-> FALSE, serialized |-> j.text, example |-> truncate(j.text)]

\* lines 163-164
callLine(lower, methodName, ex) ==
    callText(lower, methodName)
    \o (IF ex # <<>> THEN <<" // => ">> \o ex ELSE <<>>) \o <<"\n">>

\* Invoke without the try block: the error leaves build()
InvokeWithoutCatch ==
    /\ pc = "invoke"
    /\ LET t == tryExample(curMethod.impl, rng) IN
          /\ example' = t.example
          /\ examples' = IF t.caught THEN examples
                         ELSE examples \o callLine(lowerModuleName, curMethod.name, t.example)
          /\ serialized' = t.serialized
          /\ seen' = IF t.caught THEN seen
                     ELSE seen \cup {<<lowerModuleName, curMethod.name, t.serialized>>}
          /\ pc' = IF t.caught THEN "failed" ELSE "tags"
          /\ failedAt' = IF t.caught THEN "invoke" ELSE failedAt
    /\ calls' = calls \cup {<<lowerModuleName, curMethod.name>>}
    /\ rng' = advance(curMethod.impl, rng)
    /\ UNCHANGED <<variant, tree, runs, projectOk, mi, mj, modulesPages,
                   methods, parameters, signatureParameters, requiresArgs,
                   disk, writes>>

\* lines 156-168: the guarded call of the method
Invoke ==
    /\ pc = "invoke"
    /\ LET t == tryExample(curMethod.impl, rng) IN
          /\ example' = t.example
          /\ examples' = IF t.caught THEN examples
                         ELSE examples \o callLine(lowerModuleName, curMethod.name, t.example)
          /\ serialized' = t.serialized
          /\ seen' = IF t.caught THEN seen
                     ELSE seen \cup {<<lowerModuleName, curMethod.name, t.serialized>>}
    /\ calls' = calls \cup {<<lowerModuleName, curMethod.name>>}
    /\ rng' = advance(curMethod.impl, rng)
    /\ pc' = "tags"
    /\ UNCHANGED <<variant, tree, runs, projectOk, mi, mj, modulesPages,
                   methods, parameters, signatureParameters, requiresArgs,
                   disk, writes, failedAt>>

\* lines 169-176
withExampleTags(ex, sig) ==
    IF Len(exampleTags(sig)) # 0
    THEN ex \o trim(join(exampleTags(sig), <<"\n">>)) \o <<"\n">>
    ELSE ex

\* lines 169-185: the author's examples and methods.push
PushMethod ==
    /\ pc = "tags"
    /\ methods' = Append(methods,
          [name |-> prettyMethodName(curMethod.name),
           description |-> renderDescription(variant, signature.comment),
           parameters |-> parameters,
           returns |-> signature.type,
           examples |-> renderExamples(variant, withExampleTags(examples, signature))])
    /\ mj' = mj + 1
    /\ pc' = "method"
    /\ UNCHANGED <<variant, tree, runs, projectOk, rng, mi, modulesPages,
                   parameters, signatureParameters, requiresArgs, example,
                   examples, disk, writes, seen, calls, serialized, failedAt>>

\* WriteMd with the error swallowed: the loop goes on to the next module
WriteMdSwallowsError ==
    /\ pc = "method"
    /\ mj > Len(curModule.methods)
    /\ \E ok \in BOOLEAN :
          IF ok
          THEN /\ disk' = writeFileSync(disk, pathMd(lowerModuleName),
                     format(stripIndentAll(
                                mdTemplate(variant, moduleName, lowerModuleName,
                                           methods, curModule.comment)),
                            "markdown"))
               /\ writes' = Append(writes, pathMd(lowerModuleName))
               /\ pc' = IF variant = "data" THEN "ts" ELSE "module"
               /\ mi' = IF variant = "data" THEN mi ELSE mi + 1
          ELSE /\ pc' = "module"
               /\ mi' = mi + 1
               /\ UNCHANGED <<disk, writes>>
    /\ UNCHANGED <<variant, tree, runs, projectOk, rng, mj, modulesPages,
                   methods, parameters, signatureParameters, requiresArgs,
                   example, examples, seen, calls, serialized, failedAt>>

\* lines 187-218: the module's page; format or the write may throw
WriteMd ==
    /\ pc = "method"
    /\ mj > Len(curModule.methods)
    /\ \E ok \in BOOLEAN :
          IF ok
          THEN /\ disk' = writeFileSync(disk, pathMd(lowerModuleName),
                     format(stripIndentAll(
                                mdTemplate(variant, moduleName, lowerModuleName,
                                           methods, curModule.comment)),
                            "markdown"))
               /\ writes' = Append(writes, pathMd(lowerModuleName))
               /\ pc' = IF variant = "data" THEN "ts" ELSE "module"
               /\ mi' = IF variant = "data" THEN mi ELSE mi + 1
               /\ UNCHANGED failedAt
          ELSE /\ pc' = "failed"
               /\ failedAt' = "md"
               /\ UNCHANGED <<disk, writes, mi>>
    /\ UNCHANGED <<variant, tree, runs, projectOk, rng, mj, modulesPages,
                   methods, parameters, signatureParameters, requiresArgs,
                   example, examples, seen, calls, serialized>>

\* lines 220-234: the companion data file of the "data" variant
WriteTs ==
    /\ pc = "ts"
    /\ \E ok \in BOOLEAN :
          IF ok
          THEN /\ disk' = writeFileSync(disk, pathTs(lowerModuleName),
                     format(tsTemplate(lowerModuleName, methods), "typescript"))
               /\ writes' = Append(writes, pathTs(lowerModuleName))
               /\ pc' = "module"
               /\ mi' = mi + 1
               /\ UNCHANGED failedAt
          ELSE /\ pc' = "failed"
               /\ failedAt' = "ts"
               /\ UNCHANGED <<disk, writes, mi>>
    /\ UNCHANGED <<variant, tree, runs, projectOk, rng, mj, modulesPages,
                   methods, parameters, signatureParameters, requiresArgs,
                   example, examples, seen, calls, serialized>>

\* lines 237-251: sort, format and write the navigation manifest
WriteApiPages ==
    /\ pc = "module"
    /\ mi > Len(tree)
    /\ modulesPages' = sortPages(modulesPages)
    /\ \E ok \in BOOLEAN :
          IF ok
          THEN /\ disk' = writeFileSync(disk, pathDocsApiPages,
                     format(stripIndentFirst(
                                apiPagesTemplate(sortPages(modulesPages))),
                            "babel"))
               /\ writes' = Append(writes, pathDocsApiPages)
               /\ pc' = "done"
               /\ UNCHANGED failedAt
          ELSE /\ pc' = "failed"
               /\ failedAt' = "apiPages"
               /\ UNCHANGED <<disk, writes>>
    /\ UNCHANGED <<variant, tree, runs, projectOk, rng, mi, mj, methods,
                   parameters, signatureParameters, requiresArgs, example,
                   examples, seen, calls, serialized>>

\* line 254: the script is run again; the output directory is what the
\* earlier run left, everything else starts afresh
Rerun ==
    /\ pc \in {"done", "failed"}
    /\ runs < MaxRuns
    /\ runs' = runs + 1
    /\ pc' = "start"
    /\ projectOk' = FALSE
    /\ rng' \in StartSeeds
    /\ mi' = 1
    /\ mj' = 1
    /\ modulesPages' = <<>>
    /\ methods' = <<>>
    /\ parameters' = <<>>
    /\ signatureParameters' = <<>>
    /\ requiresArgs' = FALSE
    /\ example' = <<>>
    /\ examples' = <<>>
    /\ writes' = <<>>
    /\ failedAt' = "none"
    /\ calls' = {}
    /\ serialized' = <<>>
    /\ UNCHANGED <<variant, tree, disk, seen>>

Next ==
    \/ Convert
    \/ GenerateJson
    \/ BeginModule
    \/ ExtractSignature
    \/ Seed
    \/ Invoke
    \/ PushMethod
    \/ WriteMd
    \/ WriteTs
    \/ WriteApiPages
    \/ Rerun

Spec == Init /\ [][Next]_vars

----------------------------------------------------------------------------
(* Helpers of the properties *)

lowerNameOf(decl) == lowerFirst(replaceUnderscore(decl.name))

\* the paths a complete run writes, in order
RECURSIVE moduleWrites(_, _)
moduleWrites(t, n) ==
    IF n = 0 THEN <<>>
    ELSE moduleWrites(t, n - 1)
         \o <<pathMd(lowerNameOf(t[n]))>>
         \o (IF variant = "data" THEN <<pathTs(lowerNameOf(t[n]))>> ELSE <<>>)

IsPrefix(a, b) == Len(a) <= Len(b) /\ SubSeq(b, 1, Len(a)) = a

StartsWith(s, prefix) == IsPrefix(prefix, s)

OnDisk(path) == \E i \in 1..Len(disk) : disk[i].path = path
FileAt(path) == disk[CHOOSE i \in 1..Len(disk) : disk[i].path = path].content

\* the positions of a text at which a line starts
LineStarts(s) == {i \in 1..Len(s) : i = 1 \/ s[i - 1] = "\n"}

\* the line that starts at position i begins with the given pieces
LineStartsWith(s, i, prefix) ==
    /\ i + Len(prefix) - 1 <= Len(s)
    /\ SubSeq(s, i, i + Len(prefix) - 1) = prefix

\* the documentation a method has when no call line is generated
examplesWithoutCall(decl, lower) ==
    withExampleTags(
        signatureSummary(lower, decl,
            [i \in 1..Len(decl.parameters) |->
                signatureParameterText(decl.parameters[i])]),
        decl)

\* no parameters, or a first parameter with a declared default
FirstParameterOptional(decl) ==
    Len(decl.parameters) = 0 \/ decl.parameters[1].defaultValue.def

InMethodLoop == pc \in {"method", "seed", "invoke", "tags", "ts"}

CountIn(seq, e) == Cardinality({i \in 1..Len(seq) : seq[i] = e})

IsGeneratedNotice(l) ==
    l.t \in {"<!-- This file is automatically generated. -->",
             "// This file is automatically generated."}
IsCommandNotice(l) ==
    l.t \in {"<!-- Run '$' to update -->", "// Run '$' to update"}
    /\ l.v = scriptCommand
HasBanner(content) ==
    /\ \E i \in 1..Len(content) : IsGeneratedNotice(content[i])
    /\ \E i \in 1..Len(content) : IsCommandNotice(content[i])

----------------------------------------------------------------------------
(* Properties *)

\* C1: when app.convert() yields no project, build() returns at once and
\* the run writes nothing: no dump, no module file, no navigation manifest.
C1_NoProjectNoWrite ==
    (pc # "start" /\ ~projectOk) =>
        (pc = "done" /\ failedAt = "none" /\ writes = <<>>)

\* a second run that finds no project, over the files of a first run
C1_Witness ==
    pc = "done" /\ ~projectOk /\ runs = 2 /\ Len(disk) >= 2 /\ writes = <<>>

\* C2: a throw of the speculative call, or of the serialization of its
\* result, never ends the run: the method's record is appended with name,
\* description, parameters, return type and examples that lack only the
\* call line, and a run that ends normally has written every module with
\* one record per method.
C2_CallFailureIsContained ==
    /\ pc = "failed" => failedAt \in {"generateJson", "md", "ts", "apiPages"}
    /\ InMethodLoop =>
          /\ Len(methods) <= Len(curModule.methods)
          /\ \A j \in 1..Len(methods) :
                LET decl == curModule.methods[j] IN
                (FirstParameterOptional(decl)
                   /\ tryExample(decl.impl, seed(0)).caught) =>
                    /\ methods[j].name = prettyMethodName(decl.name)
                    /\ methods[j].description # <<>>
                    /\ Len(methods[j].parameters)
                         = Len(decl.typeParameters) + Len(decl.parameters)
                    /\ methods[j].returns = decl.type
                    /\ methods[j].examples
                         = renderExamples(variant,
                               examplesWithoutCall(decl, lowerModuleName))
    /\ (pc = "done" /\ projectOk) =>
          \A i \in 1..Len(tree) :
             LET path == IF variant = "data" THEN pathTs(lowerNameOf(tree[i]))
                         ELSE pathMd(lowerNameOf(tree[i]))
             IN /\ CountIn(writes, path) = 1
                /\ OnDisk(path)
                /\ \E k \in 1..Len(FileAt(path)) :
                      /\ FileAt(path)[k].t \in
                            {"const methods = ref($json);",
                             "export const $: Method[] = $json"}
                      /\ Len(FileAt(path)[k].v) = Len(tree[i].methods)

\* a run ends normally after a module whose second method throws when
\* called without arguments, with a further module after it
C2_Witness ==
    /\ pc = "done" /\ projectOk
    /\ Len(tree) = 2 /\ tree[1] = DeclAnimal
    /\ <<lowerNameOf(DeclAnimal), DeclAnimal.methods[2].name>> \in calls

\* C3: every speculative call starts from the generator state seed 0
\* produces, whatever was processed before it, and so every serialized
\* result of one method, in whatever run, is the same text.
C3_SeededBeforeEveryCall ==
    /\ pc = "invoke" => rng = seed(0)
    /\ \A a, b \in seen : (a[1] = b[1] /\ a[2] = b[2]) => a[3] = b[3]

\* a second run, started from another seed, calls a method of its second
\* module that the first run has called and written
C3_Witness ==
    /\ runs = 2 /\ pc = "tags" /\ mi = 2 /\ serialized # <<>>
    /\ OnDisk(pathMd(lowerModuleName))
    /\ <<lowerModuleName, curMethod.name, serialized>> \in seen
    /\ Cardinality(calls) >= 2

\* C4: a method is called without arguments exactly when it has no
\* parameters or its first parameter has a default; later parameters play
\* no part.  A method that is not called still gets its record, with a
\* description and the signature summary.
C4_FirstParameterDecides ==
    /\ \A i \in 1..Len(tree) : \A j \in 1..Len(tree[i].methods) :
          <<lowerNameOf(tree[i]), tree[i].methods[j].name>> \in calls
             => FirstParameterOptional(tree[i].methods[j])
    /\ pc = "tags" =>
          (FirstParameterOptional(curMethod)
             <=> <<lowerModuleName, curMethod.name>> \in calls)
    /\ InMethodLoop =>
          \A j \in 1..Len(methods) :
             LET decl == curModule.methods[j] IN
             ~FirstParameterOptional(decl) =>
                /\ <<lowerModuleName, decl.name>> \notin calls
                /\ methods[j].description # <<>>
                /\ methods[j].examples
                     = renderExamples(variant,
                           examplesWithoutCall(decl, lowerModuleName))

\* a method with a required first and a defaulted second parameter has
\* been passed over, after a method with a defaulted first and a required
\* second parameter has been called
C4_Witness ==
    /\ pc = "tags" /\ requiresArgs
    /\ Len(curMethod.parameters) = 2
    /\ curMethod.parameters[2].defaultValue.def
    /\ <<lowerNameOf(DeclAnimal), DeclAnimal.methods[2].name>> \in calls

\* C5: a run writes the dump first, then the files of each module in
\* declaration order, each before the next module is begun, and the
\* manifest last; after an error the files written so far stay and nothing
\* further is written.
C5_WriteOrder ==
    LET full == <<pathOutputJson>> \o moduleWrites(tree, Len(tree))
                \o <<pathDocsApiPages>>
    IN /\ IsPrefix(writes, full)
       /\ \A k \in 1..Len(writes) : OnDisk(writes[k])
       /\ pc \in {"method", "seed", "invoke", "tags"} =>
             writes = <<pathOutputJson>> \o moduleWrites(tree, mi - 1)
       /\ pc = "ts" =>
             writes = <<pathOutputJson>> \o moduleWrites(tree, mi - 1)
                      \o <<pathMd(lowerModuleName)>>
       /\ (pc = "done" /\ projectOk) => writes = full
       /\ pc = "failed" =>
             /\ CountIn(writes, pathDocsApiPages) = 0
             /\ failedAt = "md" =>
                   writes = <<pathOutputJson>> \o moduleWrites(tree, mi - 1)
             /\ failedAt = "ts" =>
                   writes = <<pathOutputJson>> \o moduleWrites(tree, mi - 1)
                            \o <<pathMd(lowerModuleName)>>

\* the page of the second module could not be written: the files of the
\* first module are there
C5_Witness ==
    /\ pc = "failed" /\ failedAt = "md" /\ mi = 2 /\ runs = 1
    /\ Len(disk) >= 2

\* C6: the list of a written manifest is ordered by title and is a
\* permutation of the two fixed entries and one entry per module.
C6_ManifestSorted ==
    (OnDisk(pathDocsApiPages)) =>
        LET content == FileAt(pathDocsApiPages)
            k == CHOOSE k \in 1..Len(content) :
                    content[k].t = "export const apiPages = $json;"
            list == content[k].v
            input == FixedPages \o
                     [i \in 1..Len(tree) |->
                        [text |-> replaceUnderscore(tree[i].name),
                         link |-> <<"/api/">> \o lowerNameOf(tree[i])
                                  \o <<".html">>]]
        IN /\ \E h \in 1..Len(content) :
                 content[h].t = "export const apiPages = $json;"
           /\ Len(list) = Len(input)
           /\ \A i \in 1..Len(list) :
                 CountIn(list, list[i]) = CountIn(input, list[i])
           /\ \A i \in 1..(Len(list) - 1) :
                 localeCompare(list[i].text, list[i + 1].text) <= 0

\* a manifest in which a module comes before 'Fake' and another between
\* 'Fake' and 'Localization'
C6_Witness ==
    /\ pc = "done" /\ OnDisk(pathDocsApiPages)
    /\ LET content == FileAt(pathDocsApiPages)
           list == content[Len(content)].v
       IN /\ Len(list) = 4
          /\ list[2] = FixedPages[1]
          /\ list[4] = FixedPages[2]

\* C7: a serialized result of more than 50 characters is stored as its
\* first 47 characters followed by '...', 50 characters in all; one of 50
\* characters or fewer is stored unchanged.
C7_Truncation ==
    (pc = "tags" /\ serialized # <<>>) =>
        /\ Len(serialized) > 50 =>
              /\ example = SubSeq(serialized, 1, 47) \o <<".", ".", ".">>
              /\ Len(example) = 50
        /\ Len(serialized) <= 50 => example = serialized
        /\ Len(example) <= 50

\* a result of 51 characters has been cut
C7_Witness ==
    pc = "tags" /\ Len(serialized) = 51 /\ Len(example) = 50

\* C8: in the signature summary a parameter with a default is shown with
\* a '?' after its name and one without a default is not, and the text of
\* the default is shown exactly for the parameters that have one.
C8_OptionalMarked ==
    pc \in {"seed", "invoke", "tags"} =>
        \A i \in 1..Len(curMethod.parameters) :
           LET p == curMethod.parameters[i]
               shown == signatureParameters[i]
               marked == shown[Len(p.name) + 1] = "?"
           IN /\ StartsWith(shown, p.name)
              /\ p.defaultValue.def <=> marked
              /\ p.defaultValue.def <=>
                    (\E h \in 1..Len(shown) : shown[h] = " = ")

\* C9: every module page, companion data file and navigation manifest in
\* the output directory carries the banner: the notice that the file is
\* generated and the command that regenerates it.
C9_BannerInEveryFile ==
    \A i \in 1..Len(disk) :
       disk[i].path # pathOutputJson => HasBanner(disk[i].content)

\* C10: a generated call line always ends in ' // => ' and a result that
\* is not empty; a method that returns undefined gets no call line.
C10_CallLineHasResult ==
    pc = "tags" =>
        LET call == callText(lowerModuleName, curMethod.name) IN
        /\ \A i \in LineStarts(examples) :
              LineStartsWith(examples, i, call) =>
                 /\ i + Len(call) + 1 <= Len(examples)
                 /\ examples[i + Len(call)] = " // => "
                 /\ examples[i + Len(call) + 1] # "\n"
        /\ (<<lowerModuleName, curMethod.name>> \in calls
              /\ callMethod(curMethod.impl, seed(0)).kind = "undefined") =>
              \A i \in LineStarts(examples) :
                 ~LineStartsWith(examples, i, call)

\* a method that returns undefined has been called
C10_Witness ==
    /\ pc = "tags"
    /\ <<lowerModuleName, curMethod.name>> \in calls
    /\ callMethod(curMethod.impl, seed(0)).kind = "undefined"
    /\ examples = examplesWithoutCall(curMethod, lowerModuleName)

====
